---------------------------- MODULE Spec2Model ----------------------------
(***************************************************************************)
(* A model of chorokit: classification (classify.py), legend layout        *)
(* (legend.py), projection selection (projection.py) and the render        *)
(* pipeline plot_choropleth (api.py).                                       *)
(*                                                                         *)
(* Number representations.                                                 *)
(*   - data values and class breaks: fixed point, Den units per 1.0, so    *)
(*     that the interpolated quantiles and the equal-width cuts of every   *)
(*     class count k <= MaxK are exact integers;                           *)
(*   - figure fractions: Milli(n) is n/1000 of the canvas, held in units   *)
(*     of 1/2000 so that the centring division by two is exact;            *)
(*   - degrees: tenths of a degree.                                        *)
(* Optional values: None is <<>>, a present value x is <<x>>.              *)
(***************************************************************************)
EXTENDS Integers, Sequences, FiniteSets, TLC

\* ------------------------------------------------------------------ bounds
MaxLen == 3
MaxVal == 3
MaxK == 3
MaxCalls == 2

\* ----------------------------------------------------------------- helpers
None == <<>>

Some(x) == <<x>>

IsNone(o) == o = <<>>

Get(o) == o[1]

Ok(v) == [raised |-> FALSE, exc |-> "", val |-> v]

Raise(e) == [raised |-> TRUE, exc |-> e, val |-> <<>>]

RECURSIVE Fact(_)
Fact(n) == IF n <= 1 THEN 1 ELSE n * Fact(n - 1)

\* fixed-point denominator of data values: every k in 1..MaxK divides it
Den == Fact(MaxK)

F(v) == v * Den

Range(s) == {s[i] : i \in DOMAIN s}

Last(s) == s[Len(s)]

SetMin(S) == CHOOSE x \in S : \A y \in S : x <= y

SetMax(S) == CHOOSE x \in S : \A y \in S : x >= y

RECURSIVE SumSeq(_)
SumSeq(s) == IF s = <<>> THEN 0 ELSE Head(s) + SumSeq(Tail(s))

IsNonDecreasing(s) == \A i \in 1..(Len(s) - 1) : s[i] <= s[i + 1]

\* ------------------------------------------------------------ classify.py
\* values.dropna(): the present values, in order
RECURSIVE dropna(_)
dropna(values) ==
    IF values = <<>> THEN <<>>
    ELSE IF IsNone(Head(values)) THEN dropna(Tail(values))
    ELSE <<Get(Head(values))>> \o dropna(Tail(values))

\* scheme.lower() on the scheme names the model draws
lower(scheme) ==
    CASE scheme = "Q" -> "q"
      [] scheme = "EqualInterval" -> "equalinterval"
      [] scheme = "JENKS" -> "jenks"
      [] OTHER -> scheme

\* np.unique of a sorted sequence: duplicates dropped, order kept
RECURSIVE unique(_)
unique(s) ==
    IF Len(s) <= 1 THEN s
    ELSE IF s[1] = s[2] THEN unique(Tail(s))
    ELSE <<s[1]>> \o unique(Tail(s))

\* scipy.stats.scoreatpercentile(y, 100*i/k) on the sorted values ys:
\* linear interpolation at the fractional index i*(n-1)/k
scoreatpercentile(ys, i, k) ==
    LET n == Len(ys)
        pos == i * (n - 1)
        lo == (pos \div k) + 1
        r == pos % k
    IN  IF r = 0 THEN F(ys[lo])
        ELSE F(ys[lo]) + (Den \div k) * r * (ys[lo + 1] - ys[lo])

\* mapclassify.Quantiles(s, k).bins: the k percentile scores, made unique
QuantilesBins(ys, k) ==
    Ok(unique([i \in 1..k |-> scoreatpercentile(ys, i, k)]))

\* mapclassify.EqualInterval(s, k).bins: k equal-width cuts, the last set
\* to the maximum; a constant series is refused
EqualIntervalBins(ys, k) ==
    LET lo == ys[1]
        hi == Last(ys)
    IN  IF lo = hi THEN Raise("ValueError: not enough unique values")
        ELSE Ok([i \in 1..k |->
                    IF i = k THEN F(hi)
                    ELSE F(lo) + (Den \div k) * i * (hi - lo)])

\* Fact(n) times the sum of squared deviations of ys[a..b] from their mean
ClassCost(ys, a, b) ==
    LET m == b - a + 1
        xs == [j \in 1..m |-> ys[a + j - 1]]
        s1 == SumSeq(xs)
        s2 == SumSeq([j \in 1..m |-> xs[j] * xs[j]])
    IN  Fact(Len(ys)) * s2 - (Fact(Len(ys)) \div m) * s1 * s1

\* the partitions of 1..n into k runs, each given by the set of its k-1
\* interior end positions
Cuts(n, k) == {c \in SUBSET (1..(n - 1)) : Cardinality(c) = k - 1}

EndsOf(c, n) == SortSeq(
    [i \in 1..(Cardinality(c) + 1) |->
        IF i = Cardinality(c) + 1 THEN n
        ELSE CHOOSE e \in c : Cardinality({d \in c : d < e}) = i - 1],
    LAMBDA a, b : a < b)

PartitionCost(ys, c) ==
    LET ends == EndsOf(c, Len(ys))
    IN  SumSeq([i \in 1..Len(ends) |->
            ClassCost(ys, IF i = 1 THEN 1 ELSE ends[i - 1] + 1, ends[i])])

\* mapclassify.FisherJenks(s, k).bins: the upper values of the classes of a
\* minimum-variance partition; fewer unique values than classes is refused
FisherJenksBins(ys, k) ==
    IF Len(unique(ys)) < k
    THEN Raise("ValueError: fewer unique values than classes")
    ELSE LET best == CHOOSE c \in Cuts(Len(ys), k) :
                        \A d \in Cuts(Len(ys), k) :
                            PartitionCost(ys, c) <= PartitionCost(ys, d)
             ends == EndsOf(best, Len(ys))
         IN  Ok([i \in 1..k |-> F(ys[ends[i]])])

QuantileNames == {"quantile", "quantiles", "q"}

EqualNames == {"equal", "equalinterval", "e"}

NaturalNames == {"natural", "fisherjenks", "jenks", "fj"}

\* bounds[-1] = upper when the last bound is below the maximum
ClampLast(bounds, upper) ==
    IF Last(bounds) < upper
    THEN [bounds EXCEPT ![Len(bounds)] = upper]
    ELSE bounds

\* classifier_bins with a default branch in place of the refusal: an unknown
\* name is classified by quantiles
classifier_bins_default_quantiles(ys, sch, k) ==
    IF sch \in EqualNames THEN EqualIntervalBins(ys, k)
    ELSE IF sch \in NaturalNames THEN FisherJenksBins(ys, k)
    ELSE QuantilesBins(ys, k)

\* lines 23-30: the classifier the scheme name selects, applied to the
\* sorted values; an unknown name is refused
classifier_bins(ys, sch, k) ==
    IF sch \in QuantileNames THEN QuantilesBins(ys, k)
    ELSE IF sch \in EqualNames THEN EqualIntervalBins(ys, k)
    ELSE IF sch \in NaturalNames THEN FisherJenksBins(ys, k)
    ELSE Raise("ValueError: Unsupported scheme")

\* lines 31-38: the minimum, then the classifier's bins, the last one raised
\* to the maximum
full_bounds(ys, classifier) ==
    IF classifier.raised THEN classifier
    ELSE Ok(ClampLast(<<F(ys[1])>> \o classifier.val, F(Last(ys))))

\* lines 22-38, on the sorted values of a non-empty series
breaks_of_sorted(ys, scheme, k) ==
    full_bounds(ys, classifier_bins(ys, lower(scheme), k))

\* lines 19-21, then the rest
breaks_of_series(s, scheme, k) ==
    IF s = <<>> THEN Ok(<<>>)
    ELSE breaks_of_sorted(SortSeq(s, LAMBDA a, b : a < b), scheme, k)

compute_breaks(values, scheme, k) == breaks_of_series(dropna(values), scheme, k)

\* _fmt(x): the text of a number, held as the number of tenths it reads as.
\* A whole number prints without decimals; any other prints with two
\* significant digits ("%.2g": for 1 <= x < 10 one decimal, ties to the even
\* digit, which is exact for the halves, quarters, thirds and sixths that the
\* classifiers produce from whole values)
_fmt(x) ==
    IF x % Den = 0 THEN 10 * (x \div Den)
    ELSE LET q == (10 * x) \div Den
             r == (10 * x) % Den
         IN  IF 2 * r < Den THEN q
             ELSE IF 2 * r > Den THEN q + 1
             ELSE IF q % 2 = 0 THEN q ELSE q + 1

\* for i in range(len(breaks) - 1): one label "a-b" per adjacent pair
generate_interval_labels(breaks) ==
    IF Len(breaks) < 2 THEN <<>>
    ELSE [i \in 1..(Len(breaks) - 1) |-> <<_fmt(breaks[i]), _fmt(breaks[i + 1])>>]

\* -------------------------------------------------------------- legend.py
\* n thousandths of the canvas, in model units of 1/2000
Milli(n) == 2 * n

ONE == Milli(1000)

Min(a, b) == IF a < b THEN a ELSE b

Max(a, b) == IF a > b THEN a ELSE b

Abs(a) == IF a < 0 THEN 0 - a ELSE a

\* legend_rectangles with the gap to the map left out of the space reserved
\* for a top legend
legend_rectangles_gap_not_reserved(location, margins, width_frac_top, height_frac, top_offset, gap_frac) ==
    LET left == margins[1]
        right == margins[2]
        bottom == margins[3]
        top == margins[4]
    IN  IF location = "bottom" THEN
          [map_rect |-> <<left, bottom + Milli(60), ONE - left - right,
                          ONE - (bottom + Milli(60)) - top>>,
           legend_rect |-> Some(<<left + Milli(200), bottom,
                                  ONE - left - right - Milli(400), Milli(40)>>),
           enforced |-> Some("horizontal")]
        ELSE IF location = "top" THEN
          LET legend_h == IF ~IsNone(height_frac) THEN Get(height_frac) ELSE Milli(25)
              usable_w == ONE - left - right
              max_frac == IF ~IsNone(width_frac_top) THEN Get(width_frac_top) ELSE Milli(350)
              legend_w == Min(max_frac, usable_w)
              extra_gap == IF top_offset > 0 THEN top_offset ELSE Milli(50)
              reserved == Milli(80) + extra_gap + legend_h
          IN  [map_rect |-> <<left, bottom, ONE - left - right,
                              ONE - bottom - top - reserved>>,
               legend_rect |-> Some(<<left + ((usable_w - legend_w) \div 2),
                                      ONE - Milli(80) - extra_gap - legend_h,
                                      legend_w, legend_h>>),
               enforced |-> Some("horizontal")]
        ELSE
          [map_rect |-> <<left, bottom, ONE - left - right, ONE - bottom - top>>,
           legend_rect |-> None,
           enforced |-> None]

\* legend_rectangles with a branch for the location right: a vertical strip
\* beside the map
legend_rectangles_with_right(location, margins, width_frac_top, height_frac, top_offset, gap_frac) ==
    LET left == margins[1]
        right == margins[2]
        bottom == margins[3]
        top == margins[4]
        legend_w == Milli(30)
        gap == Milli(20)
    IN  [map_rect |-> <<left, bottom, ONE - left - right - legend_w - gap,
                        ONE - bottom - top>>,
         legend_rect |-> Some(<<ONE - right - legend_w, bottom + Milli(150),
                                legend_w, ONE - bottom - top - Milli(300)>>),
         enforced |-> Some("vertical")]

\* legend_rectangles(location, margins, *, width_frac_top, height_frac,
\* top_offset, gap_frac): (map_rect, legend_rect, enforced_orientation);
\* a rect is <<x, y, width, height>>, margins are <<left, right, bottom, top>>
legend_rectangles(location, margins, width_frac_top, height_frac, top_offset, gap_frac) ==
    LET left == margins[1]
        right == margins[2]
        bottom == margins[3]
        top == margins[4]
    IN  IF location = "bottom" THEN
          LET legend_h == Milli(40)
              gap == Milli(20)
          IN  [map_rect |-> <<left, bottom + legend_h + gap, ONE - left - right,
                              ONE - (bottom + legend_h + gap) - top>>,
               legend_rect |-> Some(<<left + Milli(200), bottom,
                                      ONE - left - right - Milli(400), legend_h>>),
               enforced |-> Some("horizontal")]
        ELSE IF location = "top" THEN
          LET legend_h == IF ~IsNone(height_frac) THEN Get(height_frac) ELSE Milli(25)
              gap == IF ~IsNone(gap_frac) THEN Get(gap_frac) ELSE Milli(15)
              usable_w == ONE - left - right
              max_frac == IF ~IsNone(width_frac_top) THEN Get(width_frac_top) ELSE Milli(350)
              legend_w == Min(max_frac, usable_w)
              legend_x == left + ((usable_w - legend_w) \div 2)
              title_subtitle_space == Milli(80)
              extra_gap == IF top_offset > 0 THEN top_offset ELSE Milli(50)
              reserved == title_subtitle_space + extra_gap + legend_h + gap
              legend_y == ONE - title_subtitle_space - extra_gap - legend_h
          IN  [map_rect |-> <<left, bottom, ONE - left - right,
                              ONE - bottom - top - reserved>>,
               legend_rect |-> Some(<<legend_x, legend_y, legend_w, legend_h>>),
               enforced |-> Some("horizontal")]
        ELSE
          [map_rect |-> <<left, bottom, ONE - left - right, ONE - bottom - top>>,
           legend_rect |-> None,
           enforced |-> None]

\* rect geometry
RX(r) == r[1]

RY(r) == r[2]

RW(r) == r[3]

RH(r) == r[4]

InCanvas(r) ==
    /\ RX(r) >= 0 /\ RY(r) >= 0
    /\ RX(r) + RW(r) <= ONE /\ RY(r) + RH(r) <= ONE

NonNegative(r) == RW(r) >= 0 /\ RH(r) >= 0

Positive(r) == RW(r) > 0 /\ RH(r) > 0

\* two rectangles share no interior point
Disjoint(a, b) ==
    \/ RX(a) + RW(a) <= RX(b) \/ RX(b) + RW(b) <= RX(a)
    \/ RY(a) + RH(a) <= RY(b) \/ RY(b) + RH(b) <= RY(a)

\* ---------------------------------------------------------- projection.py
\* A dataset: crs is its CRS label (an EPSG code, or None); bounds is
\* total_bounds <<minx, miny, maxx, maxy>> in tenths of a unit; hist is the
\* sequence of coordinate transforms applied to its coordinates (relabelling
\* does not touch it); fails says which transforms of this data fail:
\* "none", "not3857" (every transform but the one to EPSG:3857) or "all".
\* vals is the value column.
WGS84 == 4326

NAD83 == 4269

WEB_MERCATOR == 3857

\* Projection.us_albers()
us_albers == 5070

\* CRS.is_geographic, over the codes the model uses
is_geographic(crs) == crs \in {WGS84, NAD83}

\* GeoDataFrame.to_crs: refuses a dataset without a CRS, returns the dataset
\* itself when it already is in the target CRS, and otherwise transforms the
\* coordinates or fails. The bounds kept are those of the source frame: the
\* code reads bounds of geographic data only.
to_crs(gdf, target) ==
    IF IsNone(gdf.crs) THEN Raise("ValueError: cannot transform naive geometries")
    ELSE IF Get(gdf.crs) = target THEN Ok(gdf)
    ELSE IF gdf.fails = "all" \/ (gdf.fails = "not3857" /\ target # WEB_MERCATOR)
    THEN Raise("ProjError: transform failed")
    ELSE Ok([gdf EXCEPT !.crs = Some(target), !.hist = @ \o <<target>>])

\* GeoDataFrame.set_crs(crs, allow_override=True): the label alone changes
set_crs(gdf, crs) == [gdf EXCEPT !.crs = Some(crs)]

_is_conus_bounds(minx, miny, maxx, maxy) ==
    (minx >= -1800 /\ maxx <= -500) /\ (miny >= 100 /\ maxy <= 750)

\* _utm_crs_for_bounds with the zone counted from 0
_utm_crs_for_bounds_zone_from_0(minx, miny, maxx, maxy) ==
    LET zone == (minx + maxx + 3600) \div 120
        base == IF miny + maxy >= 0 THEN 326 ELSE 327
    IN  base * 100 + zone

\* zone = int((lon + 180) // 6) + 1 with lon = (minx + maxx) / 2.0 and
\* base = 326 if lat >= 0 else 327, on tenths of a degree
_utm_crs_for_bounds(minx, miny, maxx, maxy) ==
    LET zone == ((minx + maxx + 3600) \div 120) + 1
        base == IF miny + maxy >= 0 THEN 326 ELSE 327
    IN  base * 100 + zone

\* largest_span of auto_project
SpanForTarget(gdf) ==
    Max(Abs(gdf.bounds[3] - gdf.bounds[1]), Abs(gdf.bounds[4] - gdf.bounds[2]))

\* AutoTarget with the fallback tried for every dataset with a CRS, not only
\* for a geographic one
AutoTarget_fallback_for_projected(gdf, fallback) ==
    IF IsNone(gdf.crs) THEN None
    ELSE IF is_geographic(Get(gdf.crs)) /\ SpanForTarget(gdf) >= 80
            /\ (\/ _is_conus_bounds(gdf.bounds[1], gdf.bounds[2], gdf.bounds[3], gdf.bounds[4])
                \/ (-3400 <= gdf.bounds[1] + gdf.bounds[3]
                    /\ gdf.bounds[1] + gdf.bounds[3] <= -1000
                    /\ 200 <= gdf.bounds[2] + gdf.bounds[4]
                    /\ gdf.bounds[2] + gdf.bounds[4] <= 1500))
    THEN Some(us_albers)
    ELSE IF is_geographic(Get(gdf.crs)) /\ SpanForTarget(gdf) < 80
    THEN Some(_utm_crs_for_bounds(gdf.bounds[1], gdf.bounds[2], gdf.bounds[3], gdf.bounds[4]))
    ELSE IF ~IsNone(fallback) THEN fallback
    ELSE None

\* the CRS auto_project transforms to, None when it returns the dataset as is
AutoTarget(gdf, fallback) ==
    IF IsNone(gdf.crs) THEN None
    ELSE IF is_geographic(Get(gdf.crs)) THEN
      LET minx == gdf.bounds[1]
          miny == gdf.bounds[2]
          maxx == gdf.bounds[3]
          maxy == gdf.bounds[4]
          width_deg == Abs(maxx - minx)
          height_deg == Abs(maxy - miny)
          largest_span == Max(width_deg, height_deg)
          mid_lon2 == minx + maxx
          mid_lat2 == miny + maxy
      IN  IF largest_span >= 80
             /\ (\/ _is_conus_bounds(minx, miny, maxx, maxy)
                 \/ (-3400 <= mid_lon2 /\ mid_lon2 <= -1000
                     /\ 200 <= mid_lat2 /\ mid_lat2 <= 1500))
          THEN Some(us_albers)
          ELSE IF largest_span < 80
          THEN Some(_utm_crs_for_bounds(minx, miny, maxx, maxy))
          ELSE IF ~IsNone(fallback) THEN fallback
          ELSE None
    ELSE None

auto_project(gdf, fallback) ==
    LET target == AutoTarget(gdf, fallback)
    IN  IF IsNone(target) THEN Ok(gdf) ELSE to_crs(gdf, Get(target))

\* the dataset ensure_projected works on after its degree-range guard
Relabelled(gdf) ==
    IF ~IsNone(gdf.crs) /\ is_geographic(Get(gdf.crs))
       /\ (Abs(gdf.bounds[3]) > 1800 \/ Abs(gdf.bounds[4]) > 900)
    THEN set_crs(gdf, WEB_MERCATOR)
    ELSE gdf

\* ensure_projected: the dataset returned (val) and the transforms attempted
\* on the way, in order (tried); no exception leaves it
ensure_projected(gdf0) ==
    LET gdf == Relabelled(gdf0)
        target == AutoTarget(gdf, None)
        projected == auto_project(gdf, None)
        t1 == IF IsNone(target) THEN <<>> ELSE <<Get(target)>>
        forced == to_crs(gdf, WEB_MERCATOR)
    IN  IF projected.raised
        THEN \* except Exception: try gdf.to_crs(3857), else the dataset
             [val |-> IF forced.raised THEN gdf ELSE forced.val,
              tried |-> t1 \o <<WEB_MERCATOR>>]
        ELSE IF IsNone(projected.val.crs) \/ is_geographic(Get(projected.val.crs))
        THEN \* return gdf.to_crs(3857); a failure goes to the handler above
             [val |-> IF forced.raised THEN gdf ELSE forced.val,
              tried |-> t1 \o (IF forced.raised THEN <<WEB_MERCATOR, WEB_MERCATOR>>
                               ELSE <<WEB_MERCATOR>>)]
        ELSE [val |-> projected.val, tried |-> t1]

\* ------------------------------------------------------------------ api.py
\* bool(x) of an optional list: present and not empty
Truthy(o) == ~IsNone(o) /\ Get(o) # <<>>

\* number of colours of cm.get_cmap(name) for a continuous matplotlib ramp
RAMP_N == 256

\* classify.discrete_cmap(base, n) for a Colormap object base, as the number
\* of colours of the result: np.linspace(0.1, 0.9, n) refuses a negative n
discrete_cmap(n) ==
    IF n < 0 THEN Raise("ValueError: number of samples must be non-negative")
    ELSE Ok(n)

\* palettes.create_colorbrewer_cmap(name, n, as_continuous=False) tried first
\* by discrete_cmap for a palette name: the named table cut to n colours
create_colorbrewer_cmap(name, n) ==
    IF name \in {"Reds", "Greens"} /\ n >= 1 THEN Some(n) ELSE None

\* classify.discrete_cmap(base, n) for a name: the brewer table when there is
\* one, else n samples of the matplotlib ramp of that name
discrete_cmap_named(name, n) ==
    IF ~IsNone(create_colorbrewer_cmap(name, n))
    THEN Ok(Get(create_colorbrewer_cmap(name, n)))
    ELSE discrete_cmap(n)

\* matplotlib BoundaryNorm(boundaries, ncolors): at least two boundaries,
\* and no more bins than colours
BoundaryNorm(breaks, ncolors) ==
    IF Len(breaks) < 2 THEN Raise("ValueError: at least 2 boundaries")
    ELSE IF ncolors < Len(breaks) - 1 THEN Raise("ValueError: ncolors below the number of bins")
    ELSE Ok("boundary")

\* Figure.add_axes(rect): matplotlib refuses a negative width or height
add_axes(rect) ==
    IF RW(rect) < 0 \/ RH(rect) < 0
    THEN Raise("ValueError: width and height must be non-negative")
    ELSE Ok(rect)

\* lines 90-91 of plot_choropleth
effective_auto(layout, args) ==
    IF IsNone(layout.auto_project) THEN args.auto_project_data
    ELSE Get(layout.auto_project)

\* proj_to_use without the layout's projection
proj_to_use_argument_only(layout, args) == args.projection

proj_to_use(layout, args) ==
    IF ~IsNone(args.projection) THEN args.projection ELSE layout.projection

\* lines 105-110 of plot_choropleth
has_legend(legend) ==
    \/ Truthy(legend.breaks)
    \/ (legend.kind = "continuous" /\ ~IsNone(legend.vmin) /\ ~IsNone(legend.vmax))
    \/ (legend.kind = "binned" /\ ~IsNone(legend.scheme))
    \/ (legend.kind = "binned" /\ ~IsNone(legend.palette))

\* lines 111-128 of plot_choropleth: the rectangles and the orientation
Rects(legend, layout) ==
    IF has_legend(legend) THEN
      LET r == IF legend.location = "top"
               THEN legend_rectangles(legend.location, layout.margins,
                        Some(Milli(350)), Some(Milli(25)), Milli(50), Some(Milli(5)))
               ELSE legend_rectangles(legend.location, layout.margins,
                        None, None, 0, None)
      IN  [map_rect |-> r.map_rect, legend_rect |-> r.legend_rect,
           orientation |-> IF ~IsNone(r.enforced) THEN Get(r.enforced)
                           ELSE legend.orientation]
    ELSE
      [map_rect |-> <<layout.margins[1], layout.margins[3],
                      ONE - layout.margins[1] - layout.margins[2],
                      ONE - layout.margins[3] - layout.margins[4]>>,
       legend_rect |-> None,
       orientation |-> legend.orientation]

\* palette_n of lines 143-146: the count of the palette pair, if any
palette_n(legend) ==
    IF IsNone(legend.palette) THEN None ELSE Get(legend.palette)[2]

palette_name(legend) ==
    IF IsNone(legend.palette) THEN None ELSE Some(Get(legend.palette)[1])

\* lines 148-155: the breaks in use, computed when a binned legend has none
BreaksToUse(legend, vals) ==
    IF legend.kind = "binned" /\ IsNone(legend.breaks) THEN
      IF ~IsNone(legend.scheme) /\ Get(legend.scheme) # "" THEN
        LET pn == palette_n(legend)
            k_classes == IF ~IsNone(pn) /\ Get(pn) # 0 THEN Get(pn) ELSE legend.k
            r == compute_breaks(vals, Get(legend.scheme), k_classes)
        IN  IF r.raised THEN r ELSE Ok(Some(r.val))
      ELSE IF ~IsNone(palette_n(legend)) THEN
        LET r == compute_breaks(vals, "equal", Get(palette_n(legend)))
        IN  IF r.raised THEN r ELSE Ok(Some(r.val))
      ELSE Ok(None)
    ELSE Ok(legend.breaks)

\* lines 156-157
LabelsToUse(legend, breaks) ==
    IF legend.kind = "binned" /\ ~IsNone(breaks) /\ IsNone(legend.labels)
    THEN Some(generate_interval_labels(Get(breaks)))
    ELSE legend.labels

\* lines 159-165: the number of colours of the colormap in use
ColormapN(legend, cmap, breaks) ==
    IF legend.kind = "binned" THEN
      IF ~IsNone(palette_n(legend))
      THEN discrete_cmap_named(
             IF Get(palette_name(legend)) # "" THEN Get(palette_name(legend)) ELSE cmap,
             Get(palette_n(legend)))
      ELSE IF ~IsNone(breaks) THEN discrete_cmap(Len(Get(breaks)) - 1)
      ELSE Ok(RAMP_N)
    ELSE Ok(RAMP_N)

\* lines 167-170: the normalization, None when there is none
Norm(legend, breaks, ncolors) ==
    IF legend.kind = "binned" /\ Truthy(breaks)
    THEN LET r == BoundaryNorm(Get(breaks), ncolors)
         IN  IF r.raised THEN r ELSE Ok(Some(r.val))
    ELSE IF legend.kind = "continuous" /\ ~IsNone(legend.vmin) /\ ~IsNone(legend.vmax)
    THEN Ok(Some("normalize"))
    ELSE Ok(None)

\* ColorbarKind without the vmin/vmax test of the continuous branch
ColorbarKind_unchecked_range(legend, breaks) ==
    IF legend.kind = "binned" /\ Truthy(breaks) THEN "binned"
    ELSE IF legend.kind = "continuous" THEN "continuous"
    ELSE "none"

\* lines 193-213: which colorbar is added to a legend rectangle
ColorbarKind(legend, breaks) ==
    IF legend.kind = "binned" /\ Truthy(breaks) THEN "binned"
    ELSE IF legend.kind = "continuous" /\ ~IsNone(legend.vmin) /\ ~IsNone(legend.vmax)
    THEN "continuous"
    ELSE "none"

\* Theme.apply that sets nothing process-wide
ThemeApply_no_global(theme, rc) == rc

\* Theme.apply: the font default after the call
ThemeApply(theme, rc) ==
    IF ~IsNone(theme.font_family) /\ Get(theme.font_family) # ""
    THEN Get(theme.font_family) ELSE rc

\* ------------------------------------------------------------------- state
\* a call of compute_breaks: its arguments, its position, its outcome;
\* blabels is what generate_interval_labels makes of the breaks returned
VARIABLES values, scheme, k, bpc, bres, blabels

\* a call of legend_rectangles: its arguments (hints are the keyword
\* arguments), its position, its result
VARIABLES location, margins, hints, lpc, lres

\* a call of auto_project or ensure_projected: the dataset and the fallback,
\* the position, the outcome and the transforms attempted, in order; pres2 is
\* the outcome of auto_project called again on what auto_project returned
VARIABLES pgdf, fallback, ppc, pres, ptried, pres2

\* a call of plot_choropleth.
\* gdf, legend, layout, args: the caller's dataset, LegendConfig, LayoutConfig
\* and keyword arguments; pc: the position in plot_choropleth; exc: the
\* exception that left it; gdf_plot, autoRan, tried: the dataset plotted,
\* whether ensure_projected ran, the transforms attempted; effects: the
\* rendering side effects so far, in order; rcFont: mpl.rcParams["font.family"];
\* rects: map_rect, legend_rect, legend_orientation; colors: breaks_to_use,
\* labels_to_use, colormap.N and norm.
\* calls: how many calls were made, one after the other, with the caller's
\* LayoutConfig object; made: the title and source the caller constructed that
\* object with; textFont: the font default in effect when the call at hand
\* drew its text, None before
VARIABLES gdf, legend, layout, args, pc, exc, gdf_plot, autoRan, tried,
          effects, rcFont, rects, colors, calls, made, textFont

\* two calls of plot_choropleth running concurrently in one process, which
\* share mpl.rcParams (rcFont). tpc: the position of each call; tfont: the
\* font_family of the theme of each call; tdrawn: the font default in effect
\* when the call drew its text, None before
VARIABLES tpc, tfont, tdrawn

tvars == <<tpc, tfont, tdrawn>>

bvars == <<values, scheme, k, bpc, bres, blabels>>

lvars == <<location, margins, hints, lpc, lres>>

pvars == <<pgdf, fallback, ppc, pres, ptried, pres2>>

rvars == <<gdf, legend, layout, args, pc, exc, gdf_plot, autoRan, tried,
           effects, rcFont, rects, colors, calls, made, textFont>>

vars == <<bvars, lvars, pvars, rvars, tvars>>

\* ---------------------------------------------- state of the classifier run
Element == {None} \cup {Some(v) : v \in 1..MaxVal}

SeriesSet == UNION {[1..n -> Element] : n \in 0..MaxLen}

SchemeNames == {"quantiles", "Q", "equal", "EqualInterval", "natural",
                "JENKS", "kmeans", ""}

ComputeBreaks ==
    /\ bpc = "call"
    /\ bres' = compute_breaks(values, scheme, k)
    /\ bpc' = "returned"
    /\ UNCHANGED <<values, scheme, k, blabels, lvars, pvars, rvars, tvars>>

\* generate_interval_labels(breaks) on the breaks compute_breaks returned
GenerateLabels ==
    /\ bpc = "returned" /\ ~bres.raised
    /\ blabels' = generate_interval_labels(bres.val)
    /\ bpc' = "labelled"
    /\ UNCHANGED <<values, scheme, k, bres, lvars, pvars, rvars, tvars>>

NextBreaks == ComputeBreaks \/ GenerateLabels

\* ------------------------------------------------ state of the layout call
Locations == {"top", "bottom", "right"}

\* margin fractions the model draws: none, the default 0.04, and margins
\* large enough to use up the canvas
MarginVals == {0, Milli(40), Milli(300), Milli(480)}

MarginSet == [1..4 -> MarginVals]

\* the keyword hints of a call: each left to its default or supplied, among
\* them the values plot_choropleth passes for a top legend, and zeros
HintSet ==
    [width_frac_top : {None, Some(Milli(350)), Some(ONE)},
     height_frac : {None, Some(0), Some(Milli(25))},
     top_offset : {0, Milli(50), Milli(100)},
     gap_frac : {None, Some(0), Some(Milli(5))}]

NoLayout == [map_rect |-> <<0, 0, 0, 0>>, legend_rect |-> None, enforced |-> None]

LegendRectangles ==
    /\ lpc = "call"
    /\ lres' = legend_rectangles(location, margins, hints.width_frac_top,
                                 hints.height_frac, hints.top_offset, hints.gap_frac)
    /\ lpc' = "returned"
    /\ UNCHANGED <<location, margins, hints, bvars, pvars, rvars, tvars>>

NextLayout == LegendRectangles

\* -------------------------------------------- state of the projection call
\* longitudes and latitudes (tenths of a degree) the bounds are drawn from:
\* the continental US, London, the antimeridian, the southern hemisphere and
\* magnitudes no degree can have
LonVals == {-2000, -1800, -1240, -660, -5, 3, 1790, 1800, 2000}

LatVals == {-950, -340, 240, 500, 513, 517, 950}

BoundsSet == {b \in LonVals \X LatVals \X LonVals \X LatVals :
                b[1] <= b[3] /\ b[2] <= b[4]}

CrsSet == {None, Some(WGS84), Some(WEB_MERCATOR)}

FailModes == {"none", "not3857", "all"}

Dataset(crs, bounds, fails, vals) ==
    [crs |-> crs, bounds |-> bounds, hist |-> <<>>, fails |-> fails, vals |-> vals]

NoDataset == Dataset(None, <<0, 0, 0, 0>>, "none", <<>>)

\* auto_project(gdf, fallback)
AutoProject ==
    /\ ppc = "call"
    /\ pres' = auto_project(pgdf, fallback)
    /\ ptried' = (IF IsNone(AutoTarget(pgdf, fallback)) THEN <<>>
                  ELSE <<Get(AutoTarget(pgdf, fallback))>>)
    /\ ppc' = "auto"
    /\ UNCHANGED <<pgdf, fallback, pres2, bvars, lvars, rvars, tvars>>

\* ensure_projected(gdf)
EnsureProjected ==
    /\ ppc = "call"
    /\ pres' = Ok(ensure_projected(pgdf).val)
    /\ ptried' = ensure_projected(pgdf).tried
    /\ ppc' = "ensured"
    /\ UNCHANGED <<pgdf, fallback, pres2, bvars, lvars, rvars, tvars>>

\* auto_project(auto_project(gdf, fallback), fallback)
AutoProjectAgain ==
    /\ ppc = "auto" /\ ~pres.raised
    /\ pres2' = auto_project(pres.val, fallback)
    /\ ppc' = "auto2"
    /\ UNCHANGED <<pgdf, fallback, pres, ptried, bvars, lvars, rvars, tvars>>

NextProj == AutoProject \/ AutoProjectAgain \/ EnsureProjected

\* ------------------------------------------ state of a plot_choropleth call
\* bounds of the continental US, in tenths of a degree
ConusBounds == <<-1240, 240, -660, 500>>

ValueColumns == {<<None, None>>, <<Some(1), Some(2), Some(3)>>}

DefaultMargins == <<Milli(40), Milli(40), Milli(40), Milli(40)>>

WideMargins == <<Milli(500), Milli(500), Milli(40), Milli(40)>>

TallMargins == <<Milli(40), Milli(40), Milli(480), Milli(480)>>

Theme(font) == [font_family |-> font]

Fonts == {None, Some("Roboto, Arial"), Some("Georgia")}

LegendConfigs ==
    {[kind |-> kd, location |-> loc, orientation |-> "vertical",
      breaks |-> b, labels |-> None, vmin |-> vr[1], vmax |-> vr[2],
      scheme |-> s, k |-> 2, palette |-> pal] :
        kd \in {"binned", "continuous"},
        loc \in Locations,
        b \in {None, Some(<<F(0), F(5), F(10)>>)},
        vr \in {<<Some(0), Some(10)>>, <<Some(0), None>>},
        s \in {None, Some("quantiles"), Some("kmeans")},
        pal \in {None, Some(<<"Reds", None>>), Some(<<"Reds", Some(2)>>),
                 Some(<<"Reds", Some(3)>>)}}

DefaultArgs == [auto_project_data |-> TRUE, projection |-> None, title |-> None,
                source |-> None]

ArgSets ==
    {[auto_project_data |-> a, projection |-> p, title |-> None, source |-> None] :
        a \in BOOLEAN, p \in {None, Some(WEB_MERCATOR)}}

NoRects == [map_rect |-> <<0, 0, 0, 0>>, legend_rect |-> None, orientation |-> ""]

NoColors == [breaks |-> None, labels |-> None, N |-> RAMP_N, norm |-> None]

\* matplotlib's font.family before any theme is applied
RC_DEFAULT == "sans-serif"

\* lines 77-95: the convenience fields, then the projection
Project ==
    /\ pc = "project"
    /\ layout' = [layout EXCEPT
                     !.title = IF ~IsNone(args.title) THEN args.title ELSE @,
                     !.source = IF ~IsNone(args.source) THEN args.source ELSE @]
    /\ IF ~IsNone(proj_to_use(layout, args)) THEN
         LET r == to_crs(gdf, Get(proj_to_use(layout, args)))
         IN  /\ tried' = <<Get(proj_to_use(layout, args))>>
             /\ autoRan' = FALSE
             /\ IF r.raised
                THEN pc' = "raised" /\ exc' = r.exc /\ UNCHANGED gdf_plot
                ELSE pc' = "figure" /\ gdf_plot' = r.val /\ UNCHANGED exc
       ELSE IF effective_auto(layout, args) THEN
         /\ gdf_plot' = ensure_projected(gdf).val
         /\ tried' = ensure_projected(gdf).tried
         /\ autoRan' = TRUE
         /\ pc' = "figure"
         /\ UNCHANGED exc
       ELSE
         /\ gdf_plot' = gdf
         /\ pc' = "figure"
         /\ UNCHANGED <<tried, autoRan, exc>>
    /\ UNCHANGED <<gdf, legend, args, effects, rcFont, rects, colors,
                   calls, made, textFont, bvars, lvars, pvars, tvars>>

\* line 98
CreateFigure ==
    /\ pc = "figure"
    /\ effects' = Append(effects, "figure")
    /\ pc' = "theme"
    /\ UNCHANGED <<gdf, legend, layout, args, exc, gdf_plot, autoRan, tried,
                   rcFont, rects, colors,
                   calls, made, textFont, bvars, lvars, pvars, tvars>>

\* lines 100-101
ApplyTheme ==
    /\ pc = "theme"
    /\ rcFont' = ThemeApply(layout.theme, rcFont)
    /\ effects' = Append(effects, "theme")
    /\ pc' = "layout"
    /\ UNCHANGED <<gdf, legend, layout, args, exc, gdf_plot, autoRan, tried,
                   rects, colors,
                   calls, made, textFont, bvars, lvars, pvars, tvars>>

\* lines 102-128
Layout ==
    /\ pc = "layout"
    /\ rects' = Rects(legend, layout)
    /\ pc' = "axes"
    /\ UNCHANGED <<gdf, legend, layout, args, exc, gdf_plot, autoRan, tried,
                   effects, rcFont, colors,
                   calls, made, textFont, bvars, lvars, pvars, tvars>>

\* lines 130-134
AddAxes ==
    /\ pc = "axes"
    /\ IF add_axes(rects.map_rect).raised
       THEN pc' = "raised" /\ exc' = add_axes(rects.map_rect).exc /\ UNCHANGED effects
       ELSE pc' = "classify" /\ effects' = Append(effects, "axes") /\ UNCHANGED exc
    /\ UNCHANGED <<gdf, legend, layout, args, gdf_plot, autoRan, tried,
                   rcFont, rects, colors,
                   calls, made, textFont, bvars, lvars, pvars, tvars>>

\* lines 136-170
Classify ==
    /\ pc = "classify"
    /\ \E b \in {BreaksToUse(legend, gdf_plot.vals)} :
       \E n \in {IF b.raised THEN b ELSE ColormapN(legend, "YlOrRd", b.val)} :
       \E nm \in {IF n.raised THEN n ELSE Norm(legend, b.val, n.val)} :
          IF nm.raised
          THEN pc' = "raised" /\ exc' = nm.exc /\ UNCHANGED colors
          ELSE /\ colors' = [breaks |-> b.val,
                             labels |-> LabelsToUse(legend, b.val),
                             N |-> n.val, norm |-> nm.val]
               /\ pc' = "plot"
               /\ UNCHANGED exc
    /\ UNCHANGED <<gdf, legend, layout, args, gdf_plot, autoRan, tried,
                   effects, rcFont, rects,
                   calls, made, textFont, bvars, lvars, pvars, tvars>>

\* lines 173-190
Plot ==
    /\ pc = "plot"
    /\ effects' = Append(effects, "plot")
    /\ pc' = "legend"
    /\ UNCHANGED <<gdf, legend, layout, args, exc, gdf_plot, autoRan, tried,
                   rcFont, rects, colors,
                   calls, made, textFont, bvars, lvars, pvars, tvars>>

\* lines 192-213
DrawLegend ==
    /\ pc = "legend"
    /\ IF ~IsNone(rects.legend_rect) /\ ColorbarKind(legend, colors.breaks) # "none"
       THEN IF add_axes(Get(rects.legend_rect)).raised
            THEN /\ pc' = "raised"
                 /\ exc' = add_axes(Get(rects.legend_rect)).exc
                 /\ UNCHANGED effects
            ELSE /\ effects' = Append(effects, "colorbar")
                 /\ pc' = "text"
                 /\ UNCHANGED exc
       ELSE pc' = "text" /\ UNCHANGED <<effects, exc>>
    /\ UNCHANGED <<gdf, legend, layout, args, gdf_plot, autoRan, tried,
                   rcFont, rects, colors,
                   calls, made, textFont, bvars, lvars, pvars, tvars>>

\* _add_layout_text: the title is anchored by its top edge at y = 0.97, the
\* source by its bottom edge at footer_y = bottom + 0.005, both at x = left
title_y == Milli(970)

footer_anchor(lay) == <<lay.margins[1], lay.margins[3] + Milli(5)>>

\* lines 215-218
AddText ==
    /\ pc = "text"
    /\ effects' = IF ~IsNone(layout.title) \/ ~IsNone(layout.source)
                  THEN Append(effects, "text") ELSE effects
    /\ textFont' = IF ~IsNone(layout.title) \/ ~IsNone(layout.source)
                   THEN Some(rcFont) ELSE None
    /\ pc' = "returned"
    /\ UNCHANGED <<gdf, legend, layout, args, exc, gdf_plot, autoRan, tried,
                   rcFont, rects, colors,
                   calls, made, bvars, lvars, pvars, tvars>>

\* the title and source of a LayoutConfig() constructed with neither
NoText == [title |-> None, source |-> None]

\* the keyword arguments of a call that may pass a title and a source
TextArgs ==
    {[DefaultArgs EXCEPT !.title = a, !.source = s] :
        a \in {None, Some("title of the call")},
        s \in {None, Some("source of the call")}}

\* the caller calls plot_choropleth again once a call is over, with the same
\* LayoutConfig object (to which the caller may have given another theme) and
\* keyword arguments of this call; mpl.rcParams is the process's and stays
CallAgain ==
    /\ pc \in {"returned", "raised"}
    /\ calls < MaxCalls
    /\ calls' = calls + 1
    /\ \E f \in Fonts : layout' = [layout EXCEPT !.theme = Theme(f)]
    /\ args' \in TextArgs
    /\ pc' = "project" /\ exc' = "" /\ gdf_plot' = NoDataset
    /\ autoRan' = FALSE /\ tried' = <<>> /\ effects' = <<>>
    /\ rects' = NoRects /\ colors' = NoColors /\ textFont' = None
    /\ UNCHANGED <<gdf, legend, rcFont, made, bvars, lvars, pvars, tvars>>

NextRender ==
    \/ Project \/ CreateFigure \/ ApplyTheme \/ Layout \/ AddAxes
    \/ Classify \/ Plot \/ DrawLegend \/ AddText

\* ------------------------------------------------ two concurrent calls
Calls == {1, 2}

NoCalls == [t \in Calls |-> "idle"]

\* the positions of plot_choropleth at which the step to come reads and writes
\* nothing but the call's own arguments and locals: the projection
\* (lines 89-95), the figure (98), the rectangles (102-128), the axes (130),
\* the classification (133-170), the plot (172-190) and the legend (192-213)
LocalSteps ==
    [project |-> "figure", figure |-> "theme", layout |-> "axes", axes |-> "classify",
     classify |-> "plot", plot |-> "legend", legend |-> "text"]

\* a step of call t that touches no state shared between calls
TLocal(t) ==
    /\ tpc[t] \in DOMAIN LocalSteps
    /\ tpc' = [tpc EXCEPT ![t] = LocalSteps[tpc[t]]]
    /\ UNCHANGED <<tfont, tdrawn, rvars, bvars, lvars, pvars>>

\* lines 100-101 in call t: layout.theme.apply() writes mpl.rcParams
TApplyTheme(t) ==
    /\ tpc[t] = "theme"
    /\ rcFont' = ThemeApply(Theme(tfont[t]), rcFont)
    /\ tpc' = [tpc EXCEPT ![t] = "layout"]
    /\ UNCHANGED <<tfont, tdrawn, gdf, legend, layout, args, pc, exc, gdf_plot,
                   autoRan, tried, effects, rects, colors, calls, made, textFont,
                   bvars, lvars, pvars>>

\* lines 215-218 in call t: fig.text takes the font family from mpl.rcParams
TAddText(t) ==
    /\ tpc[t] = "text"
    /\ tdrawn' = [tdrawn EXCEPT ![t] = Some(rcFont)]
    /\ tpc' = [tpc EXCEPT ![t] = "returned"]
    /\ UNCHANGED <<tfont, rvars, bvars, lvars, pvars>>

NextRace == \E t \in Calls : TLocal(t) \/ TApplyTheme(t) \/ TAddText(t)

\* ---------------------------------------------------------- specifications
NoHints == [width_frac_top |-> None, height_frac |-> None, top_offset |-> 0,
            gap_frac |-> None]

DefaultLegend == [kind |-> "binned", location |-> "top", orientation |-> "vertical",
                  breaks |-> None, labels |-> None, vmin |-> None, vmax |-> None,
                  scheme |-> None, k |-> 5, palette |-> None]

DefaultLayout == [title |-> None, source |-> None, margins |-> DefaultMargins,
                  projection |-> None, auto_project |-> None,
                  theme |-> Theme(Some("Roboto, Arial"))]

\* calls of compute_breaks on every series, scheme name and class count
InitBreaks ==
    /\ values \in SeriesSet /\ scheme \in SchemeNames /\ k \in 1..MaxK
    /\ bpc = "call" /\ bres = Ok(<<>>) /\ blabels = <<>>
    /\ location = "top" /\ margins = DefaultMargins /\ hints = NoHints
    /\ lpc = "idle" /\ lres = NoLayout
    /\ pgdf = NoDataset /\ fallback = None /\ ppc = "idle"
    /\ pres = Ok(NoDataset) /\ ptried = <<>> /\ pres2 = Ok(NoDataset)
    /\ gdf = NoDataset /\ legend = DefaultLegend /\ layout = DefaultLayout
    /\ args = DefaultArgs /\ pc = "idle" /\ exc = "" /\ gdf_plot = NoDataset
    /\ calls = 0 /\ made = NoText /\ textFont = None
    /\ autoRan = FALSE /\ tried = <<>> /\ effects = <<>> /\ rcFont = RC_DEFAULT
    /\ rects = NoRects /\ colors = NoColors
    /\ tpc = NoCalls /\ tfont = [t \in Calls |-> None] /\ tdrawn = [t \in Calls |-> None]

SpecBreaks == InitBreaks /\ [][NextBreaks]_vars

\* calls of legend_rectangles on every location, margin tuple and hint set
InitLayout ==
    /\ location \in Locations /\ margins \in MarginSet /\ hints \in HintSet
    /\ lpc = "call" /\ lres = NoLayout
    /\ values = <<>> /\ scheme = "" /\ k = 1 /\ bpc = "idle" /\ bres = Ok(<<>>) /\ blabels = <<>>
    /\ pgdf = NoDataset /\ fallback = None /\ ppc = "idle"
    /\ pres = Ok(NoDataset) /\ ptried = <<>> /\ pres2 = Ok(NoDataset)
    /\ gdf = NoDataset /\ legend = DefaultLegend /\ layout = DefaultLayout
    /\ args = DefaultArgs /\ pc = "idle" /\ exc = "" /\ gdf_plot = NoDataset
    /\ calls = 0 /\ made = NoText /\ textFont = None
    /\ autoRan = FALSE /\ tried = <<>> /\ effects = <<>> /\ rcFont = RC_DEFAULT
    /\ rects = NoRects /\ colors = NoColors
    /\ tpc = NoCalls /\ tfont = [t \in Calls |-> None] /\ tdrawn = [t \in Calls |-> None]

SpecLayout == InitLayout /\ [][NextLayout]_vars

\* calls of auto_project and ensure_projected on every dataset
InitProj ==
    /\ pgdf \in {Dataset(c, b, f, <<>>) : c \in CrsSet, b \in BoundsSet, f \in FailModes}
    /\ fallback \in {None, Some(WEB_MERCATOR), Some(WGS84)}
    /\ ppc = "call" /\ pres = Ok(NoDataset) /\ ptried = <<>> /\ pres2 = Ok(NoDataset)
    /\ values = <<>> /\ scheme = "" /\ k = 1 /\ bpc = "idle" /\ bres = Ok(<<>>) /\ blabels = <<>>
    /\ location = "top" /\ margins = DefaultMargins /\ hints = NoHints
    /\ lpc = "idle" /\ lres = NoLayout
    /\ gdf = NoDataset /\ legend = DefaultLegend /\ layout = DefaultLayout
    /\ args = DefaultArgs /\ pc = "idle" /\ exc = "" /\ gdf_plot = NoDataset
    /\ calls = 0 /\ made = NoText /\ textFont = None
    /\ autoRan = FALSE /\ tried = <<>> /\ effects = <<>> /\ rcFont = RC_DEFAULT
    /\ rects = NoRects /\ colors = NoColors
    /\ tpc = NoCalls /\ tfont = [t \in Calls |-> None] /\ tdrawn = [t \in Calls |-> None]

SpecProj == InitProj /\ [][NextProj]_vars

\* calls of plot_choropleth that differ in the legend, the margins and the
\* value column, on a dataset in WGS84
Init ==
    /\ gdf \in {Dataset(Some(WGS84), ConusBounds, "none", v) : v \in ValueColumns}
    /\ legend \in LegendConfigs
    /\ layout \in {[DefaultLayout EXCEPT !.margins = m, !.title = Some("title"),
                                         !.source = Some("source")] :
                      m \in {DefaultMargins, WideMargins, TallMargins}}
    /\ args = DefaultArgs
    /\ calls = 1 /\ made = [title |-> Some("title"), source |-> Some("source")]
    /\ textFont = None
    /\ pc = "project" /\ exc = "" /\ gdf_plot = NoDataset
    /\ autoRan = FALSE /\ tried = <<>> /\ effects = <<>> /\ rcFont = RC_DEFAULT
    /\ rects = NoRects /\ colors = NoColors
    /\ tpc = NoCalls /\ tfont = [t \in Calls |-> None] /\ tdrawn = [t \in Calls |-> None]
    /\ values = <<>> /\ scheme = "" /\ k = 1 /\ bpc = "idle" /\ bres = Ok(<<>>) /\ blabels = <<>>
    /\ location = "top" /\ margins = DefaultMargins /\ hints = NoHints
    /\ lpc = "idle" /\ lres = NoLayout
    /\ pgdf = NoDataset /\ fallback = None /\ ppc = "idle"
    /\ pres = Ok(NoDataset) /\ ptried = <<>> /\ pres2 = Ok(NoDataset)

Next == NextRender

Spec == Init /\ [][Next]_vars

\* calls of plot_choropleth that differ in the dataset's CRS, in which of its
\* transforms fail, and in the projection and auto-project arguments
InitOverride ==
    /\ gdf \in {Dataset(c, ConusBounds, f, <<Some(1), Some(2), Some(3)>>) :
                  c \in CrsSet, f \in FailModes}
    /\ legend = DefaultLegend
    /\ layout \in {[DefaultLayout EXCEPT !.projection = p, !.auto_project = a] :
                      p \in {None, Some(us_albers)},
                      a \in {None, Some(TRUE), Some(FALSE)}}
    /\ args \in ArgSets
    /\ calls = 1 /\ made = NoText /\ textFont = None
    /\ pc = "project" /\ exc = "" /\ gdf_plot = NoDataset
    /\ autoRan = FALSE /\ tried = <<>> /\ effects = <<>> /\ rcFont = RC_DEFAULT
    /\ rects = NoRects /\ colors = NoColors
    /\ tpc = NoCalls /\ tfont = [t \in Calls |-> None] /\ tdrawn = [t \in Calls |-> None]
    /\ values = <<>> /\ scheme = "" /\ k = 1 /\ bpc = "idle" /\ bres = Ok(<<>>) /\ blabels = <<>>
    /\ location = "top" /\ margins = DefaultMargins /\ hints = NoHints
    /\ lpc = "idle" /\ lres = NoLayout
    /\ pgdf = NoDataset /\ fallback = None /\ ppc = "idle"
    /\ pres = Ok(NoDataset) /\ ptried = <<>> /\ pres2 = Ok(NoDataset)

SpecOverride == InitOverride /\ [][NextRender]_vars

\* calls of plot_choropleth made one after the other with one LayoutConfig
\* object, each with a theme and keyword arguments of its own
InitSeq ==
    /\ gdf = Dataset(Some(WGS84), ConusBounds, "none", <<Some(1), Some(2), Some(3)>>)
    /\ legend = DefaultLegend
    /\ made \in {NoText, [title |-> Some("title"), source |-> Some("source")]}
    /\ \E f \in Fonts :
          layout = [DefaultLayout EXCEPT !.title = made.title, !.source = made.source,
                                         !.theme = Theme(f)]
    /\ args \in TextArgs
    /\ calls = 1 /\ textFont = None
    /\ pc = "project" /\ exc = "" /\ gdf_plot = NoDataset
    /\ autoRan = FALSE /\ tried = <<>> /\ effects = <<>> /\ rcFont = RC_DEFAULT
    /\ rects = NoRects /\ colors = NoColors
    /\ tpc = NoCalls /\ tfont = [t \in Calls |-> None] /\ tdrawn = [t \in Calls |-> None]
    /\ values = <<>> /\ scheme = "" /\ k = 1 /\ bpc = "idle" /\ bres = Ok(<<>>) /\ blabels = <<>>
    /\ location = "top" /\ margins = DefaultMargins /\ hints = NoHints
    /\ lpc = "idle" /\ lres = NoLayout
    /\ pgdf = NoDataset /\ fallback = None /\ ppc = "idle"
    /\ pres = Ok(NoDataset) /\ ptried = <<>> /\ pres2 = Ok(NoDataset)

NextSeq == NextRender \/ CallAgain

SpecSeq == InitSeq /\ [][NextSeq]_vars

\* two concurrent calls of plot_choropleth, each with a theme of its own
InitRace ==
    /\ tpc = [t \in Calls |-> "project"] /\ tfont \in [Calls -> Fonts]
    /\ tdrawn = [t \in Calls |-> None]
    /\ gdf = NoDataset /\ legend = DefaultLegend /\ layout = DefaultLayout
    /\ args = DefaultArgs /\ pc = "idle" /\ exc = "" /\ gdf_plot = NoDataset
    /\ calls = 0 /\ made = NoText /\ textFont = None
    /\ autoRan = FALSE /\ tried = <<>> /\ effects = <<>> /\ rcFont = RC_DEFAULT
    /\ rects = NoRects /\ colors = NoColors
    /\ values = <<>> /\ scheme = "" /\ k = 1 /\ bpc = "idle" /\ bres = Ok(<<>>) /\ blabels = <<>>
    /\ location = "top" /\ margins = DefaultMargins /\ hints = NoHints
    /\ lpc = "idle" /\ lres = NoLayout
    /\ pgdf = NoDataset /\ fallback = None /\ ppc = "idle"
    /\ pres = Ok(NoDataset) /\ ptried = <<>> /\ pres2 = Ok(NoDataset)

SpecRace == InitRace /\ [][NextRace]_vars

\* ------------------------------------------------------------------ claims
\* Scheme names (of those drawn) that are, compared case-insensitively, one
\* of the documented aliases
AliasNames == {"quantiles", "Q", "equal", "EqualInterval", "natural", "JENKS"}

SeriesMin == SetMin(Range(dropna(values)))

SeriesMax == SetMax(Range(dropna(values)))

\* C1: for every class count k >= 1, every supported scheme and every
\* non-empty series, compute_breaks returns exactly k+1 values, non-decreasing,
\* the first equal to the series minimum and the last >= the series maximum.
C1_BreaksShape ==
    (bpc = "returned" /\ dropna(values) # <<>> /\ scheme \in AliasNames) =>
        /\ ~bres.raised
        /\ Len(bres.val) = k + 1
        /\ IsNonDecreasing(bres.val)
        /\ bres.val[1] = F(SeriesMin)
        /\ Last(bres.val) >= F(SeriesMax)

\* C7 as stated: for every series, the empty one included, and every scheme
\* name that is no alias, compute_breaks fails with the unsupported-scheme
\* error and returns no break list.
C7_UnsupportedAlwaysRaises ==
    (bpc = "returned" /\ scheme \notin AliasNames) =>
        (bres.raised /\ bres.exc = "ValueError: Unsupported scheme")

\* C7 amended: for a scheme name that is no alias, compute_breaks fails with
\* the unsupported-scheme error and returns no list when the series has a
\* value, and returns the empty list without an error when it has none.
C7_UnsupportedRaisesUnlessEmpty ==
    (bpc = "returned" /\ scheme \notin AliasNames) =>
        IF dropna(values) # <<>>
        THEN bres.raised /\ bres.exc = "ValueError: Unsupported scheme" /\ bres.val = <<>>
        ELSE ~bres.raised /\ bres.val = <<>>

C7_Witness ==
    /\ bpc = "returned" /\ scheme = "kmeans" /\ Len(dropna(values)) = 2
    /\ bres.raised

MapRect == lres.map_rect

LegendRect == Get(lres.legend_rect)

\* C2: for each legend location and every margin tuple, the map rectangle and
\* the legend rectangle lie inside the unit canvas, have non-negative width and
\* height, and do not overlap (top: the legend starts at or above the map's
\* upper edge; bottom: it ends at or below the map's lower edge).
C2_RectsInsideCanvas ==
    lpc = "returned" =>
        /\ InCanvas(MapRect) /\ NonNegative(MapRect)
        /\ ~IsNone(lres.legend_rect) =>
              /\ InCanvas(LegendRect) /\ NonNegative(LegendRect)
              /\ Disjoint(MapRect, LegendRect)
              /\ location = "top" => RY(LegendRect) >= RY(MapRect) + RH(MapRect)
              /\ location = "bottom" => RY(LegendRect) + RH(LegendRect) <= RY(MapRect)

\* positions of plot_choropleth at which the rectangles have been computed
AfterLayout == {"axes", "classify", "plot", "legend", "text", "returned"}

Drew(e) == e \in Range(effects)

\* the vertical strip the claim describes for a legend on the right: width
\* 0.03, 0.02 right of the map, inset by 0.15 from the top and the bottom of
\* the drawable area
RightStrip ==
    <<RX(rects.map_rect) + RW(rects.map_rect) + Milli(20),
      layout.margins[3] + Milli(150),
      Milli(30),
      ONE - layout.margins[3] - layout.margins[4] - Milli(300)>>

\* C3 as stated: for location right the layout returns that vertical strip,
\* enforces the vertical orientation, and the legend requested is drawn.
C3_RightLegendStrip ==
    (pc = "returned" /\ legend.location = "right" /\ has_legend(legend)
        /\ ColorbarKind(legend, colors.breaks) # "none") =>
        /\ rects.legend_rect = Some(RightStrip)
        /\ rects.orientation = "vertical"
        /\ Drew("colorbar")

\* C3 amended: for location right the layout returns no legend rectangle and
\* enforces no orientation: the map rectangle is the margin-inset full canvas,
\* the orientation stays the caller's, and no colorbar is drawn.
C3_RightNoLegend ==
    legend.location = "right" =>
        /\ ~Drew("colorbar")
        /\ pc \in AfterLayout =>
              /\ rects.legend_rect = None
              /\ rects.orientation = legend.orientation
              /\ rects.map_rect = <<layout.margins[1], layout.margins[3],
                                    ONE - layout.margins[1] - layout.margins[2],
                                    ONE - layout.margins[3] - layout.margins[4]>>

C3_Witness ==
    /\ pc = "returned" /\ legend.location = "right" /\ has_legend(legend)
    /\ ColorbarKind(legend, colors.breaks) = "binned"
    /\ Drew("plot") /\ ~Drew("colorbar") /\ rects.legend_rect = None

\* C4: whenever the margins and the space reserved for the legend leave the
\* map rectangle or the legend rectangle a non-positive width or height, the
\* layout step reports a configuration error before any rendering side effect;
\* no rectangle with a zero or negative dimension is returned or used.
C4_NoDegenerateRect ==
    /\ pc \in AfterLayout =>
          /\ Positive(rects.map_rect)
          /\ ~IsNone(rects.legend_rect) => Positive(Get(rects.legend_rect))
    /\ pc = "raised" => effects = <<>>

NeedsAutoBreaks(lg) ==
    /\ lg.kind = "binned" /\ IsNone(lg.breaks)
    /\ \/ ~IsNone(lg.scheme)
       \/ (~IsNone(lg.palette) /\ ~IsNone(Get(lg.palette)[2]))

\* C5: when the value series is empty after dropping missing values, a render
\* of a binned legend that needs computed breaks does not raise, and it draws
\* the map with no legend. (Stated for the default margins, where the axes can
\* be created.)
C5_EmptySeriesRenders ==
    (dropna(gdf.vals) = <<>> /\ NeedsAutoBreaks(legend)
        /\ layout.margins = DefaultMargins) =>
        /\ pc # "raised"
        /\ pc = "returned" => (Drew("plot") /\ ~Drew("colorbar"))

\* a legend the claim calls invalid: binned with none of breaks, scheme and
\* palette size, or continuous with vmin or vmax missing
InvalidLegend(lg) ==
    \/ /\ lg.kind = "binned" /\ IsNone(lg.breaks) /\ IsNone(lg.scheme)
       /\ (IsNone(lg.palette) \/ IsNone(Get(lg.palette)[2]))
    \/ /\ lg.kind = "continuous" /\ (IsNone(lg.vmin) \/ IsNone(lg.vmax))

\* C6 as stated: a render request with such a legend fails with an
\* invalid-legend-configuration error, raised before anything is drawn.
C6_InvalidLegendRejected ==
    InvalidLegend(legend) =>
        /\ ~Drew("axes") /\ ~Drew("plot")
        /\ pc # "returned"

TransformErrors == {"ValueError: cannot transform naive geometries",
                    "ProjError: transform failed"}

\* C6 amended: such a request is not rejected for its legend; no
\* legend-configuration error exists. The call plots the map and adds no
\* colorbar, unless it ends earlier with an error that does not concern the
\* legend: a failed transform to an override CRS, or matplotlib's refusal of a
\* map rectangle of negative size.
C6_InvalidLegendRenders ==
    InvalidLegend(legend) =>
        /\ ~Drew("colorbar")
        /\ pc = "raised" =>
              \/ /\ exc = "ValueError: width and height must be non-negative"
                 /\ ~NonNegative(rects.map_rect)
              \/ /\ exc \in TransformErrors
                 /\ ~IsNone(args.projection) \/ ~IsNone(layout.projection)
        /\ pc = "returned" => Drew("plot")

C6_Witness ==
    /\ pc = "returned" /\ InvalidLegend(legend) /\ legend.kind = "continuous"
    /\ ~IsNone(legend.breaks) /\ ~IsNone(rects.legend_rect)
    /\ Drew("plot") /\ ~Drew("colorbar")

Geographic(d) == ~IsNone(d.crs) /\ Get(d.crs) \in {WGS84, NAD83}

SpanOf(d) == Max(d.bounds[3] - d.bounds[1], d.bounds[4] - d.bounds[2])

\* the bounds lie within the continental-US window: longitude in [-180, -50],
\* latitude in [10, 75]
InUsWindow(d) ==
    /\ -1800 <= d.bounds[1] /\ d.bounds[3] <= -500
    /\ 100 <= d.bounds[2] /\ d.bounds[4] <= 750

\* code is the EPSG code of the UTM zone floor((midLon + 180) / 6) + 1 of the
\* hemisphere of midLat, for the midpoint of the bounds of d
IsUtmOfMidpoint(code, d) ==
    \E zone \in -10..80 :
        /\ 120 * (zone - 1) <= d.bounds[1] + d.bounds[3] + 3600
        /\ d.bounds[1] + d.bounds[3] + 3600 < 120 * zone
        /\ code = (IF d.bounds[2] + d.bounds[4] >= 0 THEN 32600 ELSE 32700) + zone

\* auto_project went for the CRS code: it attempted that transform alone, and
\* what it returned is in that CRS
Selected(code) ==
    /\ ptried = <<code>>
    /\ ~pres.raised => pres.val.crs = Some(code)

LondonBounds == <<-5, 513, 3, 517>>

\* the rule of C8, without its examples
C8_Rule ==
    (ppc = "auto" /\ Geographic(pgdf)) =>
        /\ (InUsWindow(pgdf) /\ SpanOf(pgdf) >= 80) => Selected(us_albers)
        /\ SpanOf(pgdf) < 80 =>
              /\ Len(ptried) = 1
              /\ IsUtmOfMidpoint(ptried[1], pgdf)
              /\ Selected(ptried[1])

\* C8 as stated: the rule, with bounds (-124, 24, -66, 50) giving EPSG 5070
\* and bounds (-0.5, 51.3, 0.3, 51.7) giving UTM zone 31N.
C8_RuleWithLondon31N ==
    /\ C8_Rule
    /\ (ppc = "auto" /\ Geographic(pgdf) /\ pgdf.bounds = ConusBounds) =>
          Selected(us_albers)
    /\ (ppc = "auto" /\ Geographic(pgdf) /\ pgdf.bounds = LondonBounds) =>
          Selected(32631)

\* C8 amended: for a dataset with a geographic CRS, bounds within the
\* continental-US window and a largest span >= 8 degrees select EPSG 5070; a
\* largest span < 8 degrees selects the UTM CRS of zone
\* floor((midLon + 180) / 6) + 1, northern when midLat >= 0, else southern;
\* bounds (-124, 24, -66, 50) give EPSG 5070 and bounds
\* (-0.5, 51.3, 0.3, 51.7) give UTM zone 30N (EPSG 32630).
C8_RuleWithLondon30N ==
    /\ C8_Rule
    /\ (ppc = "auto" /\ Geographic(pgdf) /\ pgdf.bounds = ConusBounds) =>
          Selected(us_albers)
    /\ (ppc = "auto" /\ Geographic(pgdf) /\ pgdf.bounds = LondonBounds) =>
          Selected(32630)

C8_Witness ==
    /\ ppc = "auto" /\ Geographic(pgdf) /\ pgdf.bounds = LondonBounds
    /\ ~pres.raised /\ pres.val.crs = Some(32630) /\ pres.val.hist = <<32630>>

OverrideGiven == ~IsNone(args.projection) \/ ~IsNone(layout.projection)

\* C9: no failure of a coordinate transform during a render reaches the
\* caller; when the automatic rule and the forced EPSG:3857 transform both
\* fail, the dataset plotted is the original one, unchanged.
C9_NoTransformFailurePropagates ==
    /\ ~(pc = "raised" /\ exc \in TransformErrors)
    /\ (autoRan /\ (IsNone(gdf.crs) \/ gdf.fails = "all")) => gdf_plot = gdf

\* the override CRS of the call: the projection argument, else the layout's
OverrideCrs ==
    IF ~IsNone(args.projection) THEN Get(args.projection) ELSE Get(layout.projection)

\* the auto-project flag in effect: the layout's when it has one, else the
\* argument
AutoFlag ==
    \/ layout.auto_project = Some(TRUE)
    \/ (layout.auto_project = None /\ args.auto_project_data)

Projected(d) == ~IsNone(d.crs) /\ Get(d.crs) \notin {WGS84, NAD83}

HeightInEffect == IF IsNone(hints.height_frac) THEN Milli(25) ELSE Get(hints.height_frac)

GapInEffect == IF IsNone(hints.gap_frac) THEN Milli(15) ELSE Get(hints.gap_frac)

WidthInEffect == IF IsNone(hints.width_frac_top) THEN Milli(350) ELSE Get(hints.width_frac_top)

\* the layout of a top legend for a top offset of off: the space reserved
\* from the top is 0.08 + off + legend height + gap, the map is that much
\* lower, the legend is min(widthFrac, usable width) wide, centred between the
\* side margins, right below the band and the offset, and horizontal
TopLayoutWith(off) ==
    LET reserved == Milli(80) + off + HeightInEffect + GapInEffect
        usable == ONE - margins[1] - margins[2]
    IN  /\ RH(lres.map_rect) = ONE - margins[3] - margins[4] - reserved
        /\ RX(lres.map_rect) = margins[1] /\ RY(lres.map_rect) = margins[3]
        /\ RW(lres.map_rect) = usable
        /\ ~IsNone(lres.legend_rect)
        /\ RW(Get(lres.legend_rect)) = Min(WidthInEffect, usable)
        /\ RH(Get(lres.legend_rect)) = HeightInEffect
        /\ 2 * RX(Get(lres.legend_rect)) + RW(Get(lres.legend_rect))
              = 2 * margins[1] + usable
        /\ RY(Get(lres.legend_rect)) + RH(Get(lres.legend_rect))
              = ONE - Milli(80) - off
        /\ lres.enforced = Some("horizontal")

\* C12 as stated: for location top and every supplied non-negative top
\* offset, height and gap, a top offset of 0 included, the space reserved is
\* 0.08 + topOffset + legend height + gap.
C12_TopLayoutAnyOffset ==
    (lpc = "returned" /\ location = "top") => TopLayoutWith(hints.top_offset)

\* C12 amended: the same for every supplied height and gap >= 0 and every top
\* offset > 0; a top offset of 0, the parameter's default, counts as not
\* supplied and the default offset 0.05 is reserved in its place.
C12_TopLayoutPositiveOffset ==
    (lpc = "returned" /\ location = "top") =>
        TopLayoutWith(IF hints.top_offset > 0 THEN hints.top_offset ELSE Milli(50))

C12_Witness ==
    /\ lpc = "returned" /\ location = "top" /\ hints.top_offset = 0
    /\ hints.height_frac = Some(0) /\ hints.gap_frac = Some(0)
    /\ margins = <<Milli(40), Milli(40), Milli(40), Milli(40)>>
    /\ RH(lres.map_rect) = Milli(790)

\* C13: for every break list (of at least one break), generate_interval_labels
\* returns exactly len(breaks) - 1 labels, the i-th built from the adjacent
\* pair (breaks[i], breaks[i+1]); so for the breaks compute_breaks returns for
\* class count k on a non-empty series and a supported scheme it returns
\* exactly k labels.
C13_OneLabelPerClass ==
    bpc = "labelled" =>
        /\ bres.val # <<>> =>
              /\ Len(blabels) = Len(bres.val) - 1
              /\ \A i \in 1..Len(blabels) :
                    blabels[i] = <<_fmt(bres.val[i]), _fmt(bres.val[i + 1])>>
        /\ (dropna(values) # <<>> /\ scheme \in AliasNames) => Len(blabels) = k

\* call t took its theme step in the step at hand
ThemeStep(t) == tpc[t] = "theme" /\ tpc'[t] = "layout"

\* call t drew its text in the step at hand
TextStep(t) == tpc[t] = "text" /\ tpc'[t] = "returned"

C15_LayoutConfigUnchanged ==
    pc \in {"returned", "raised"} =>
        (layout.title = made.title /\ layout.source = made.source)

\* the font family the theme of the call at hand asks for: its font_family,
\* and matplotlib's own default when it has none
OwnFont ==
    IF IsNone(layout.theme.font_family) THEN RC_DEFAULT
    ELSE Get(layout.theme.font_family)

\* C16: render calls are independent of history. In any sequence of calls
\* made one after the other, the font default in effect while a call draws
\* its text is the one its own theme determines, a theme without a
\* font_family included, never the font of an earlier call's theme.
C16_FontFromOwnTheme ==
    (pc = "returned" /\ Drew("text")) => textFont = Some(OwnFont)

\* a bound of d has a magnitude no degree can have
OutsideDegreeRange(d) ==
    \/ Abs(d.bounds[1]) > 1800 \/ Abs(d.bounds[3]) > 1800
    \/ Abs(d.bounds[2]) > 900 \/ Abs(d.bounds[4]) > 900

\* C17: for every dataset labelled with a geographic CRS in which a bound is
\* outside the valid degree ranges (|minX| > 180, |maxX| > 180, |minY| > 90 or
\* |maxY| > 90), ensure_projected relabels it EPSG 3857 without changing a
\* coordinate and returns it in that CRS: no transform is attempted on it and
\* none is applied.
C17_MislabelledIsRelabelled ==
    (ppc = "ensured" /\ Geographic(pgdf) /\ OutsideDegreeRange(pgdf)) =>
        /\ pres.val.crs = Some(WEB_MERCATOR)
        /\ pres.val.hist = <<>>
        /\ pres.val.bounds = pgdf.bounds
        /\ ptried = <<>>

\* the point p lies inside the rectangle r
PointInRect(p, r) ==
    /\ RX(r) <= p[1] /\ p[1] <= RX(r) + RW(r)
    /\ RY(r) <= p[2] /\ p[2] <= RY(r) + RH(r)

\* C18: for every legend placement and every margin tuple, when a title is
\* present the map rectangle does not extend into the title band, the top 0.08
\* of the canvas in which the title is anchored (y = 0.97), and when a source
\* is present the footer anchor (bottom + 0.005) does not lie inside the map
\* rectangle.
C18_TextBandsClearOfMap ==
    pc = "returned" =>
        /\ ~IsNone(layout.title) =>
              /\ RY(rects.map_rect) + RH(rects.map_rect) <= ONE - Milli(80)
              /\ RY(rects.map_rect) + RH(rects.map_rect) <= title_y
        /\ ~IsNone(layout.source) =>
              ~PointInRect(footer_anchor(layout), rects.map_rect)

\* the bounds of d are degrees: longitudes in [-180, 180], latitudes in
\* [-90, 90]
InDegreeRange(d) ==
    /\ -1800 <= d.bounds[1] /\ d.bounds[3] <= 1800
    /\ -900 <= d.bounds[2] /\ d.bounds[4] <= 900

\* C19: for every geographic bounding box with longitudes in [-180, 180] and a
\* largest span < 8 degrees, the UTM zone computed is in 1..60: the EPSG code
\* selected is in 32601..32660 when midLat >= 0 and in 32701..32760 otherwise.
C19_UtmZoneInRange ==
    (ppc = "auto" /\ Geographic(pgdf) /\ InDegreeRange(pgdf) /\ SpanOf(pgdf) < 80) =>
        /\ Len(ptried) = 1
        /\ IF pgdf.bounds[2] + pgdf.bounds[4] >= 0
           THEN ptried[1] \in 32601..32660
           ELSE ptried[1] \in 32701..32760

\* the map rectangle with no room made for a legend: the canvas less the
\* margins
FullMapRect ==
    <<layout.margins[1], layout.margins[3],
      ONE - layout.margins[1] - layout.margins[2],
      ONE - layout.margins[3] - layout.margins[4]>>

\* C20: figure space is reserved for a legend exactly when a legend is drawn.
\* For every legend configuration and dataset for which the call returns, the
\* map rectangle is shrunk to make room for a legend rectangle if and only if
\* a binned or continuous colorbar is added to the figure.
C20_ReservedIffDrawn ==
    pc = "returned" =>
        /\ (~IsNone(rects.legend_rect)) <=> Drew("colorbar")
        /\ (rects.map_rect # FullMapRect) <=> Drew("colorbar")

\* the number of bins of the breaks in use
Bins ==
    Len(Get(colors.breaks)) - 1

\* a binned render whose boundary normalization has been built
BoundaryNormBuilt ==
    /\ pc \in {"plot", "legend", "text", "returned"}
    /\ legend.kind = "binned"
    /\ colors.norm = Some("boundary")

\* C21: in a binned render, whenever a boundary normalization is built, the
\* number of discrete colours of the colormap equals the number of bins
\* len(breaks) - 1, for every combination of explicit breaks, scheme, k and
\* palette (name, count).
C21_ColorsEqualBins ==
    BoundaryNormBuilt => colors.N = Bins

=============================================================================
